---------------------------- MODULE Spec2Model ----------------------------
(* A state-machine model of the alpha-beta search core of the engine       *)
(* (src/search.cpp): the iterative-deepening driver getBestMove, the root  *)
(* search getBestMoveAtDepth, PVS, probeTT, scoreMate, quiescence,         *)
(* checkQuiescence, nextMove and changePV.  The recursion is an explicit   *)
(* stack of frames; every action is the code between two calls/returns.    *)
(* Board, Hash, SearchParameters and SearchSpace are not part of the       *)
(* sources at hand: they are modelled from the specification (a finite     *)
(* abstract game graph, a keyed table, the ordered move iterator).         *)
(* The diagnostic counters of SearchStatistics are not modelled.           *)
EXTENDS Integers, Sequences, FiniteSets, TLC

----------------------------------------------------------------------------
(* Program constants.  Those of common.h are not in the sources at hand;   *)
(* MAX_DEPTH and the time factors are scaled down so that the limits they  *)
(* set are met within the model's bounds.                                  *)
MATE_SCORE == 32766
INFTY == 32767
MAX_DEPTH == 3
PAWN_VALUE == 100
KNIGHT_VALUE == 320
QUEEN_VALUE == 975
MAX_POS_SCORE == 120
TIME_FACTOR == 1
MAX_TIME_FACTOR == 2
MAX_TIME == 1000
NULL_MOVE == 0

TIME == 1
DEPTH == 2
WHITE == 0
BLACK == 1
PV_NODE == 0
CUT_NODE == 1
ALL_NODE == 2

\* const int FUTILITY_MARGIN[4]
FUTILITY_MARGIN(d) ==
    CASE d = 0 -> 0
      [] d = 1 -> MAX_POS_SCORE
      [] d = 2 -> MAX_POS_SCORE + KNIGHT_VALUE
      [] OTHER -> MAX_POS_SCORE + QUEEN_VALUE

\* const int REVERSE_FUTILITY_MARGIN[3]
REVERSE_FUTILITY_MARGIN(d) ==
    CASE d = 0 -> 0
      [] d = 1 -> MAX_POS_SCORE
      [] OTHER -> MAX_POS_SCORE + 2 * PAWN_VALUE

----------------------------------------------------------------------------
(* Bounds of the model.                                                    *)
MaxValue == 4      \* largest "go depth" value
MaxTimeValue == 1  \* largest "go movetime" value
MaxClock == 3      \* largest elapsed time a clock reading returns
NullValue == 22    \* the "go depth" value of the null-move world

Min(a, b) == IF a < b THEN a ELSE b
Max(a, b) == IF a > b THEN a ELSE b
Abs(a) == IF a < 0 THEN -a ELSE a

----------------------------------------------------------------------------
(* Moves.  A move is a small integer whose two low bits are its flags:     *)
(* bit 0 capture, bit 1 promotion; NULL_MOVE is 0.                         *)
isCapture(m) == m % 2 = 1
isPromotion(m) == (m \div 2) % 2 = 1

(* The Board: a finite game graph.  A position carries the side to move,   *)
(* the draw and check flags, the non-pawn material of the side to move,    *)
(* the material and positional evaluation (white's view), its hash key,    *)
(* the position a null move leads to, and its pseudo-legal moves in        *)
(* generation order; a pseudo-legal move carries its target, whether it    *)
(* is legal, the value of the captured piece, its exchange score and the   *)
(* static exchange evaluation of its target square.                        *)
Mv(m, to) == [m |-> m, to |-> to, legal |-> TRUE, val |-> 0, exch |-> 0, see |-> 0]
Bad(m, to) == [m |-> m, to |-> to, legal |-> FALSE, val |-> 0, exch |-> 0, see |-> 0]
Cap(m, to, v, x, s) == [m |-> m, to |-> to, legal |-> TRUE, val |-> v, exch |-> x, see |-> s]

Position(c, d, k, n, ma, ps, key, nul, mv) ==
    [stm |-> c, draw |-> d, chk |-> k, npm |-> n, mat |-> ma, pst |-> ps,
     key |-> key, nul |-> nul, mv |-> mv]

(* World 1: a pawn ending (no side has a piece, so no null move and no      *)
(* reverse futility pruning).  The root has three moves; positions 2 and   *)
(* 3 transpose into 6; 5 has a capture, an illegal capture and a quiet     *)
(* check that mates; 6 has a promotion; 7 is a stalemate whose only        *)
(* pseudo-legal move is illegal; 9 is a checkmate; 4 is a draw by rule     *)
(* and has the hash key of 2.                                              *)
World1(e, f) ==
    << Position(WHITE, FALSE, FALSE, 0, 0, 0, 1, 0, <<Mv(4, 2), Mv(8, 3), Mv(12, 4)>>),
       Position(BLACK, FALSE, FALSE, 0, e, 0, 2, 0, <<Mv(16, 5), Mv(20, 6)>>),
       Position(BLACK, FALSE, FALSE, 0, 0, f, 3, 0, <<Mv(16, 6), Mv(24, 7)>>),
       Position(BLACK, TRUE, FALSE, 0, 0, 0, 2, 0, <<Mv(40, 6)>>),
       Position(WHITE, FALSE, FALSE, 0, e, 0, 5, 0,
                <<Cap(29, 8, 100, 100, 0), Bad(33, 8), Mv(32, 9)>>),
       Position(WHITE, FALSE, FALSE, 0, f, 0, 6, 0, <<Mv(34, 8)>>),
       Position(WHITE, FALSE, FALSE, 0, 0 - e, 0, 7, 0, <<Bad(36, 8)>>),
       Position(BLACK, FALSE, FALSE, 0, e + 100, f, 8, 0, << >>),
       Position(BLACK, FALSE, TRUE, 0, 0, 0, 9, 0, << >>) >>

(* World 2: late moves.  Root move 4 leads to the drawn position 2; root   *)
(* move 8 leads to 3, where Black is well ahead and has eleven quiet       *)
(* moves: ten into 6, which White's static evaluation refutes at once,     *)
(* the eleventh into the quiet position 7.  4 is position 3 after a null   *)
(* move: White wins material by the capture into 5.  8 is 6 after a null   *)
(* move.                                                                   *)
World2 ==
    << Position(WHITE, FALSE, FALSE, 1, 0, 0, 1, 0, <<Mv(4, 2), Mv(8, 3)>>),
       Position(BLACK, TRUE, FALSE, 1, 0, 0, 2, 0, << >>),
       Position(BLACK, FALSE, FALSE, 1, -400, 0, 3, 4,
                <<Mv(12, 6), Mv(16, 6), Mv(20, 6), Mv(24, 6), Mv(28, 6), Mv(32, 6),
                  Mv(36, 6), Mv(40, 6), Mv(44, 6), Mv(48, 6), Mv(52, 7)>>),
       Position(WHITE, FALSE, FALSE, 1, -400, 0, 4, 3, <<Cap(5, 5, 975, 975, 0)>>),
       Position(BLACK, FALSE, FALSE, 1, 575, 0, 5, 0, << >>),
       Position(WHITE, FALSE, FALSE, 1, 400, 0, 6, 8, <<Mv(56, 9)>>),
       Position(WHITE, FALSE, FALSE, 0, 0, 0, 7, 0, <<Mv(60, 9)>>),
       Position(BLACK, FALSE, FALSE, 0, 400, 0, 8, 6, <<Mv(64, 7)>>),
       Position(BLACK, FALSE, FALSE, 0, 0, 0, 9, 0, <<Mv(64, 7)>>) >>

(* World 3: the root has no legal move (its one pseudo-legal move is       *)
(* illegal).                                                               *)
World3 ==
    << Position(WHITE, FALSE, FALSE, 0, 0, 0, 1, 0, <<Bad(4, 2)>>),
       Position(BLACK, FALSE, FALSE, 0, 0, 0, 2, 0, << >>) >>

(* World 4: mates and a key collision.  Black mates by 16 into 4 (whose    *)
(* one pseudo-legal move is illegal) after either root move; 5 and 7 are   *)
(* quiet and lead to each other; 6 is flagged a draw with the side to      *)
(* move in check and without a move.  4 has the hash key of 3.             *)
World4 ==
    << Position(WHITE, FALSE, FALSE, 0, 0, 0, 1, 0, <<Mv(4, 2), Mv(8, 3)>>),
       Position(BLACK, FALSE, FALSE, 0, 0, 0, 2, 0, <<Mv(16, 4), Mv(20, 5)>>),
       Position(BLACK, FALSE, FALSE, 0, 0, 0, 3, 0, <<Mv(20, 5), Mv(16, 4)>>),
       Position(WHITE, FALSE, TRUE, 0, 0, 0, 3, 0, <<Bad(24, 5)>>),
       Position(WHITE, FALSE, FALSE, 0, 0, 0, 5, 0, <<Mv(44, 6), Mv(28, 7)>>),
       Position(BLACK, TRUE, TRUE, 0, 0, 0, 6, 0, << >>),
       Position(BLACK, FALSE, FALSE, 0, 0, 0, 7, 0, <<Mv(32, 5)>>) >>

(* World 5: a stalemate behind.  White is a pawn down; root move 4 keeps   *)
(* it so (2 and 4 lead to each other); root move 8 leads to 3, whose one   *)
(* move stalemates White in 5 (the pseudo-legal move of 5 is illegal).     *)
World5 ==
    << Position(WHITE, FALSE, FALSE, 0, -100, 0, 1, 0, <<Mv(4, 2), Mv(8, 3)>>),
       Position(BLACK, FALSE, FALSE, 0, -100, 0, 2, 0, <<Mv(12, 4)>>),
       Position(BLACK, FALSE, FALSE, 0, 0, 0, 3, 0, <<Mv(12, 5)>>),
       Position(WHITE, FALSE, FALSE, 0, -100, 0, 4, 0, <<Mv(16, 2)>>),
       Position(WHITE, FALSE, FALSE, 0, -400, 0, 5, 0, <<Bad(16, 4)>>) >>

(* World 6: null moves.  Root move 4 leads to the drawn position 2; root   *)
(* move 8 leads to 3.  In 3, 5 and 7 Black is to move and well ahead;      *)
(* his one move leads to the drawn position 9.  4, 6 and 8 are 3, 5 and 7  *)
(* after a null move; the one move of 4 leads to 5, that of 6 to 7, that   *)
(* of 8 to 2.                                                              *)
World6 ==
    << Position(WHITE, FALSE, FALSE, 1, 0, 0, 1, 0, <<Mv(4, 2), Mv(8, 3)>>),
       Position(BLACK, TRUE, FALSE, 0, 0, 0, 2, 0, << >>),
       Position(BLACK, FALSE, FALSE, 1, -320, 0, 3, 4, <<Mv(12, 9)>>),
       Position(WHITE, FALSE, FALSE, 1, -320, 0, 4, 3, <<Mv(16, 5)>>),
       Position(BLACK, FALSE, FALSE, 1, -320, 0, 5, 6, <<Mv(12, 9)>>),
       Position(WHITE, FALSE, FALSE, 1, -320, 0, 6, 5, <<Mv(16, 7)>>),
       Position(BLACK, FALSE, FALSE, 1, -320, 0, 7, 8, <<Mv(12, 9)>>),
       Position(WHITE, FALSE, FALSE, 1, -320, 0, 8, 7, <<Mv(16, 2)>>),
       Position(WHITE, TRUE, FALSE, 0, 0, 0, 9, 0, << >>) >>

(* World 7: a key collision between nodes that have a move.  2 and 3 have *)
(* the same hash key and different moves; 4 and 6 lead to each other, 5    *)
(* leads to 6.                                                             *)
World7 ==
    << Position(WHITE, FALSE, FALSE, 0, 0, 0, 1, 0, <<Mv(4, 2), Mv(8, 3)>>),
       Position(BLACK, FALSE, FALSE, 0, 0, 0, 2, 0, <<Mv(12, 4)>>),
       Position(BLACK, FALSE, FALSE, 0, 0, 0, 2, 0, <<Mv(16, 5)>>),
       Position(WHITE, FALSE, FALSE, 0, 0, 0, 4, 0, <<Mv(20, 6)>>),
       Position(WHITE, FALSE, FALSE, 0, 0, 0, 5, 0, <<Mv(24, 6)>>),
       Position(BLACK, FALSE, FALSE, 0, 0, 0, 6, 0, <<Mv(28, 4)>>) >>

(* World 8: a hash move that raises alpha to beta - 1.  Root move 4 leads   *)
(* to 2, root move 8 to 3, from where 2 is reached again two plies on (3   *)
(* to 4 to 2).  In 2 Black is to move: 5 follows, from where the line 5,   *)
(* 6, 7 is worth one point more to Black than 5 itself.  3 is well ahead   *)
(* for Black on the board and 4 well ahead for White; 8 is 3 and 9 is 4    *)
(* after a null move.                                                      *)
World8 ==
    << Position(WHITE, FALSE, FALSE, 0, 0, 0, 1, 0, <<Mv(4, 2), Mv(8, 3)>>),
       Position(BLACK, FALSE, FALSE, 0, 70, 0, 2, 0, <<Mv(12, 5), Mv(16, 5)>>),
       Position(BLACK, FALSE, FALSE, 1, -400, 0, 3, 8, <<Mv(20, 4), Mv(24, 4)>>),
       Position(WHITE, FALSE, FALSE, 1, 270, 0, 4, 9, <<Mv(28, 2), Mv(32, 2)>>),
       Position(WHITE, FALSE, FALSE, 0, -50, 0, 5, 0, <<Mv(36, 6), Mv(40, 6)>>),
       Position(BLACK, FALSE, FALSE, 0, -50, 0, 6, 0, <<Mv(44, 7), Mv(48, 7)>>),
       Position(WHITE, FALSE, FALSE, 0, -51, 0, 7, 0, << >>),
       Position(WHITE, FALSE, FALSE, 1, 270, 0, 8, 3, << >>),
       Position(BLACK, FALSE, FALSE, 1, 270, 0, 9, 4, << >>) >>

Evals == {-400, 0, 400}
Configs == { [w |-> 1, e |-> e, f |-> f] : e \in Evals, f \in Evals }
            \cup { [w |-> w, e |-> 0, f |-> 0] : w \in 2..8 }

World(c) ==
    CASE c.w = 1 -> World1(c.e, c.f)
      [] c.w = 2 -> World2
      [] c.w = 3 -> World3
      [] c.w = 4 -> World4
      [] c.w = 5 -> World5
      [] c.w = 6 -> World6
      [] c.w = 7 -> World7
      [] c.w = 8 -> World8

\* The searches asked for: the one deep search on world 6, every mode and
\* value on the other worlds.
Inputs(c) ==
    IF c.w = 6 THEN {<<DEPTH, NullValue>>}
    ELSE ({DEPTH} \X (1..MaxValue)) \cup ({TIME} \X (1..MaxTimeValue))

----------------------------------------------------------------------------
VARIABLES
    cfg,        \* the game graph the search runs on
    mode,       \* TIME or DEPTH
    value,      \* the movetime or the depth asked for
    dpc,        \* getBestMove: where the driver is
    legalMoves, \* getBestMove: the root move list
    bestMove,   \* *bestMove
    bestScore,  \* getBestMove: bestScore (UNINIT until first written)
    rootDepth,  \* getBestMove: rootDepth
    pvLine,     \* getBestMove: the iteration's SearchPV
    timeLimit,  \* searchParams.timeLimit
    now,        \* the last reading of the clock since startTime
    isStop,     \* the shared stop flag
    ply,        \* searchParams.ply
    nullMoveCount, \* searchParams.nullMoveCount
    killers,    \* searchParams.killers
    history,    \* searchParams.historyTable
    tt,         \* transpositionTable
    stack,      \* the active frames below getBestMove, innermost last
    ret,        \* the value the last finished call returned
    out,        \* the lines written to standard output
    last,       \* ghost: the last finished call
    lastAdd     \* ghost: the last transpositionTable.add

vars == <<cfg, mode, value, dpc, legalMoves, bestMove, bestScore, rootDepth,
          pvLine, timeLimit, now, isStop, ply, nullMoveCount, killers,
          history, tt, stack, ret, out, last, lastAdd>>

UNINIT == -99999
NoEntry == [depth |-> -1, m |-> NULL_MOVE, score |-> 0, nodeType |-> ALL_NODE]
NoCall == [fn |-> "none"]
NoAdd == [key |-> 0]

Board(b) == World(cfg)[b]

----------------------------------------------------------------------------
(* The Board interface the search consumes.                                *)
getPlayerToMove(b) == Board(b).stm
isDraw(b) == Board(b).draw
isInCheck(b) == Board(b).chk
getNonPawnMaterial(b) == Board(b).npm
evaluateMaterial(b) == Board(b).mat
evaluatePositional(b) == Board(b).pst
evaluate(b) == Board(b).mat + Board(b).pst
doNullMove(b) == Board(b).nul

\* The pseudo-legal moves of b, as records and as move numbers.
Pseudo(b) == Board(b).mv
Ids(recs) == [k \in 1..Len(recs) |-> recs[k].m]
IsPseudo(b, m) == \E k \in 1..Len(Pseudo(b)) : Pseudo(b)[k].m = m
Rec(b, m) == Pseudo(b)[CHOOSE k \in 1..Len(Pseudo(b)) : Pseudo(b)[k].m = m]
\* doPseudoLegalMove / doMove: whether the move is legal, and the copy.
doPseudoLegalMove(b, m) == Rec(b, m).legal
Target(b, m) == Rec(b, m).to
\* doHashMove: the move must be playable in this very position.
doHashMove(b, m) == IsPseudo(b, m) /\ Rec(b, m).legal
isCheckMove(b, m) == isInCheck(Target(b, m))
IsLegalRec(r) == r.legal
getAllLegalMoves(b) == Ids(SelectSeq(Pseudo(b), IsLegalRec))
valueOfCaptured(b, m) == Rec(b, m).val
getMVVLVAScore(b, m) == Rec(b, m).val
getExchangeScore(b, m) == Rec(b, m).exch
getSEE(b, m) == Rec(b, m).see

IsCaptureRec(r) == isCapture(r.m)
IsPromotionRec(r) == isPromotion(r.m) /\ ~isCapture(r.m)
getPseudoLegalCaptures(b) == Ids(SelectSeq(Pseudo(b), IsCaptureRec))
getPseudoLegalPromotions(b) == Ids(SelectSeq(Pseudo(b), IsPromotionRec))
getPseudoLegalChecks(b) ==
    LET IsCheck(r) == ~isCapture(r.m) /\ ~isPromotion(r.m) /\ isInCheck(r.to)
    IN  Ids(SelectSeq(Pseudo(b), IsCheck))
getPseudoLegalCheckEscapes(b) == Ids(Pseudo(b))

----------------------------------------------------------------------------
(* Sequences.                                                              *)
Swap(s, i, j) == [s EXCEPT ![i] = s[j], ![j] = s[i]]
Remove(s, m) == SelectSeq(s, LAMBDA x : x # m)
Member(s, m) == \E k \in 1..Len(s) : s[k] = m

\* The first index of s, at or after from, holding a largest key.
RECURSIVE ArgMax(_, _, _, _)
ArgMax(keys, from, best, k) ==
    IF k > Len(keys) THEN best
    ELSE IF keys[k] > keys[best] THEN ArgMax(keys, from, k, k + 1)
    ELSE ArgMax(keys, from, best, k + 1)

\* s ordered by descending keys, by successive selection of the largest:
\* the largest of i.. is swapped to i, then the rest is ordered.  (j and
\* the swapped lists are bound as members of singleton sets, which makes
\* each of them a value computed once.)
RECURSIVE SortDesc(_, _, _)
SortDesc(s, keys, i) ==
    IF i >= Len(s) THEN s
    ELSE CHOOSE r \in
            { SortDesc(p[1], p[2], i + 1) :
                p \in { <<Swap(s, i, j), Swap(keys, i, j)>> :
                          j \in {ArgMax(keys, i, i, i + 1)} } } : TRUE

----------------------------------------------------------------------------
(* SearchParameters.                                                       *)
NoKillers == [p \in 0..(Max(MaxValue, NullValue) + 2) |-> <<NULL_MOVE, NULL_MOVE>>]
History(h, c, m) == IF <<c, m>> \in DOMAIN h THEN h[<<c, m>>] ELSE 0
SetHistory(h, c, m, v) ==
    [x \in (DOMAIN h) \cup {<<c, m>>} |-> IF x = <<c, m>> THEN v ELSE h[x]]
ageHistoryTable(h) == [x \in DOMAIN h |-> h[x] \div 2]

(* SearchSpace: the ordered move iterator of a node.  generateMoves drops  *)
(* the hash move (probeTT has searched it) and orders the rest: captures   *)
(* and promotions that do not lose material by MVV/LVA, the killers of     *)
(* the ply, the other quiet moves by history, then the losing captures.    *)
generateMoves(b, hashed, kl, h) ==
    LET c == getPlayerToMove(b)
        all == Remove(Ids(Pseudo(b)), hashed)
        Tactical(m) == isCapture(m) \/ isPromotion(m)
        good == SelectSeq(all, LAMBDA m : Tactical(m) /\ getSEE(b, m) >= 0)
        losing == SelectSeq(all, LAMBDA m : Tactical(m) /\ getSEE(b, m) < 0)
        quiet == SelectSeq(all, LAMBDA m : ~Tactical(m))
        k1 == IF Member(quiet, kl[1]) THEN <<kl[1]>> ELSE << >>
        k2 == IF Member(quiet, kl[2]) /\ kl[2] # kl[1] THEN <<kl[2]>> ELSE << >>
        rest == SelectSeq(quiet, LAMBDA m : m # kl[1] /\ m # kl[2])
        gkeys == [k \in 1..Len(good) |->
                    getMVVLVAScore(b, good[k])
                    + (IF isPromotion(good[k]) THEN QUEEN_VALUE ELSE 0)]
        hkeys == [k \in 1..Len(rest) |-> History(h, c, rest[k])]
    IN  SortDesc(good, gkeys, 1) \o k1 \o k2 \o SortDesc(rest, hkeys, 1) \o losing

nodeIsReducible(f) == ~f.isInCheck /\ ~f.isPVNode

\* reduceBadHistories: the quiet moves yielded before the best move lose
\* depth * depth, not below 0.
RECURSIVE reduceBadHistories(_, _, _, _, _)
reduceBadHistories(h, c, yielded, best, depth) ==
    IF yielded = << >> THEN h
    ELSE LET m == Head(yielded)
             v == Max(0, History(h, c, m) - depth * depth)
             h2 == IF m = best \/ isCapture(m) THEN h ELSE SetHistory(h, c, m, v)
         IN  reduceBadHistories(h2, c, Tail(yielded), best, depth)

----------------------------------------------------------------------------
(* Hash: one entry per key; add replaces the entry of the key.             *)
TTKeys == 1..16
EmptyTable == [k \in TTKeys |-> NoEntry]
ttGet(t, b) == t[Board(b).key]
ttHas(t, b) == t[Board(b).key].depth >= 0
ttAdd(t, b, depth, m, score, nodeType) ==
    [t EXCEPT ![Board(b).key] =
        [depth |-> depth, m |-> m, score |-> score, nodeType |-> nodeType]]

----------------------------------------------------------------------------
(* Frames.  A frame holds the parameters and locals of one active call:    *)
(* fn names the function, pc the place it continues from.  pvRef is the    *)
(* index of the frame whose local SearchPV the pvLine parameter points     *)
(* to (0: the SearchPV of getBestMove).  a0 keeps the alpha of the call.   *)
(* Ghosts of the root frame: aborted tells that a frame of the search of   *)
(* the current root move returned on the stop flag or the time limit,      *)
(* tainted that tempMove was set from such a search.                       *)
Frame0 ==
    [fn |-> "", pc |-> "", b |-> 0, depth |-> 0, alpha |-> 0, beta |-> 0,
     a0 |-> 0, prevAlpha |-> 0, hashed |-> NULL_MOVE, isPVNode |-> FALSE,
     isInCheck |-> FALSE, staticEval |-> 0, moves |-> << >>, scores |-> << >>,
     i |-> 0, movesSearched |-> 0, score |-> 0, toHash |-> NULL_MOVE,
     m |-> NULL_MOVE, copy |-> 0, reduction |-> 0, line |-> << >>,
     pvRef |-> 0, tempMove |-> -1, standPat |-> 0, yielded |-> << >>,
     phase |-> "", aborted |-> FALSE, tainted |-> FALSE]

PVSFrame(b, depth, alpha, beta, pvRef) ==
    [Frame0 EXCEPT !.fn = "PVS", !.pc = "enter", !.b = b, !.depth = depth,
                   !.alpha = alpha, !.beta = beta, !.a0 = alpha, !.pvRef = pvRef]

\* quiescence and checkQuiescence keep plies in the depth field.
QFrame(fn, b, plies, alpha, beta) ==
    [Frame0 EXCEPT !.fn = fn, !.pc = "enter", !.b = b, !.depth = plies,
                   !.alpha = alpha, !.beta = beta, !.a0 = alpha]

N == Len(stack)
Top == stack[N]
Running(fn, pc) == N > 0 /\ Top.fn = fn /\ Top.pc = pc
Popped == SubSeq(stack, 1, N - 1)

\* The ghost of a finished call of frame f: its parameters, the value it
\* returned and the return it took.
Call(f, via, v) ==
    [fn |-> f.fn, b |-> f.b, depth |-> f.depth, alpha |-> f.a0, beta |-> f.beta,
     val |-> v, via |-> via, ply |-> ply, tainted |-> f.tainted]

\* changePV(best, parent, child)
changePV(best, child) == <<best>> \o child

\* The stack st with the SearchPV that pvRef names set to pv.
WithPV(st, pvRef, pv) == IF pvRef = 0 THEN st ELSE [st EXCEPT ![pvRef].line = pv]

\* C integer division truncates toward zero.
TruncDiv(a, b) == IF a >= 0 THEN a \div b ELSE -((-a) \div b)

\* The score field of an info line (search.cpp:118-128).
PAWN_VALUE_EG == 139
ScoreString(bs) ==
    IF bs >= MATE_SCORE - MAX_DEPTH
    THEN [kind |-> "mate", n |-> TruncDiv(MATE_SCORE - bs, 2) + 1]
    ELSE IF bs <= -MATE_SCORE + MAX_DEPTH
    THEN [kind |-> "mate", n |-> TruncDiv(-MATE_SCORE - bs, 2)]
    ELSE [kind |-> "cp", n |-> TruncDiv(bs * 100, PAWN_VALUE_EG)]

\* MoveList::get(0) of getBestMove: NULL_MOVE when the list is empty.
First(l) == IF l = << >> THEN NULL_MOVE ELSE l[1]

ROOT == 1

----------------------------------------------------------------------------
Init ==
    /\ cfg \in Configs
    /\ \E mv \in Inputs(cfg) : mode = mv[1] /\ value = mv[2]
    /\ dpc = "start"
    /\ legalMoves = << >>
    /\ bestMove = NULL_MOVE
    /\ bestScore = UNINIT
    /\ rootDepth = 0
    /\ pvLine = << >>
    /\ timeLimit = 0
    /\ now = 0
    /\ isStop = FALSE
    /\ ply = 0
    /\ nullMoveCount = 0
    /\ killers = NoKillers
    /\ history = << >>
    /\ tt = EmptyTable
    /\ stack = << >>
    /\ ret = 0
    /\ out = << >>
    /\ last = NoCall
    /\ lastAdd = NoAdd

\* Start with the pseudo-legal moves of the root for its legal moves.
StartPseudoLegal ==
    /\ dpc = "start"
    /\ legalMoves' = Ids(Pseudo(ROOT))
    /\ bestMove' = First(legalMoves')
    /\ timeLimit' = IF mode = TIME THEN MAX_TIME_FACTOR * value ELSE MAX_TIME
    /\ now' = 0
    /\ rootDepth' = 1
    /\ ply' = 0 /\ nullMoveCount' = 0 /\ killers' = NoKillers
    /\ dpc' = "iter"
    /\ UNCHANGED <<cfg, mode, value, bestScore, pvLine, isStop, history, tt,
                   stack, ret, out, last, lastAdd>>

(* getBestMove, search.cpp:80-94: reset, the root move list, the default   *)
(* best move, the time limit.                                              *)
Start ==
    /\ dpc = "start"
    /\ legalMoves' = getAllLegalMoves(ROOT)
    /\ bestMove' = First(legalMoves')
    /\ timeLimit' = IF mode = TIME THEN MAX_TIME_FACTOR * value ELSE MAX_TIME
    /\ now' = 0
    /\ rootDepth' = 1
    /\ ply' = 0 /\ nullMoveCount' = 0 /\ killers' = NoKillers
    /\ dpc' = "iter"
    /\ UNCHANGED <<cfg, mode, value, bestScore, pvLine, isStop, history, tt,
                   stack, ret, out, last, lastAdd>>

(* search.cpp:96-101: one iteration begins; getBestMoveAtDepth is called   *)
(* (its locals of lines 153-158).                                          *)
Iterate ==
    /\ dpc = "iter"
    /\ ply' = 0 /\ nullMoveCount' = 0 /\ killers' = NoKillers
    /\ pvLine' = << >>
    /\ stack' = << [Frame0 EXCEPT !.fn = "root", !.pc = "loop", !.b = ROOT,
                      !.depth = rootDepth, !.score = -MATE_SCORE,
                      !.alpha = -MATE_SCORE, !.beta = MATE_SCORE,
                      !.a0 = -MATE_SCORE] >>
    /\ dpc' = "search"
    /\ UNCHANGED <<cfg, mode, value, legalMoves, bestMove, bestScore, rootDepth,
                   timeLimit, now, isStop, history, tt, ret, out, last, lastAdd>>

\* The loop condition with a depth search stopped one iteration early.
LoopConditionEarly(timeSoFar, depth) ==
    \/ mode = TIME /\ timeSoFar < value * TIME_FACTOR /\ depth <= MAX_DEPTH
    \/ mode = DEPTH /\ depth < value

\* The loop condition without the soft time budget.
LoopConditionNoBudget(timeSoFar, depth) ==
    \/ mode = TIME /\ depth <= MAX_DEPTH
    \/ mode = DEPTH /\ depth <= value

\* search.cpp:137-139: the condition of the do-while loop, on the clock
\* reading of line 110 and the incremented rootDepth.
LoopCondition(timeSoFar, depth) ==
    \/ mode = TIME /\ timeSoFar < value * TIME_FACTOR /\ depth <= MAX_DEPTH
    \/ mode = DEPTH /\ depth <= value

\* The iteration's result without the swap of line 105.
SwappedNot(l, index) == l

\* search.cpp:105: legalMoves.swap(0, bestMoveIndex).
Swapped(l, index) == Swap(l, 1, index + 1)

(* search.cpp:102-139: the iteration's result; break on -1, else swap,     *)
(* print the info line and test the loop condition with a clock reading.   *)
(* Ghosts of the info line: move is the root move at the returned index,   *)
(* tainted what the root search tells of it.                               *)
IterationEnd ==
    /\ dpc = "search" /\ stack = << >>
    /\ IF ret = -1
       THEN /\ dpc' = "finish"
            /\ UNCHANGED <<legalMoves, bestMove, now, out, rootDepth>>
       ELSE /\ legalMoves' = Swapped(legalMoves, ret)
            /\ bestMove' = legalMoves'[1]
            /\ \E t \in now..MaxClock : now' = t
            /\ \E bs \in (IF bestScore = UNINIT THEN {-1, 0} ELSE {bestScore}) :
                  out' = Append(out, [type |-> "info", depth |-> rootDepth,
                                      score |-> ScoreString(bs), pv |-> pvLine,
                                      move |-> legalMoves[ret + 1],
                                      tainted |-> last.tainted])
            /\ rootDepth' = rootDepth + 1
            /\ dpc' = IF LoopCondition(now', rootDepth') THEN "iter" ELSE "finish"
    /\ UNCHANGED <<cfg, mode, value, bestScore, pvLine, timeLimit, isStop, ply,
                   nullMoveCount, killers, history, tt, stack, ret, last, lastAdd>>

(* search.cpp:141-147: age the history table, raise the stop flag, print   *)
(* the best move.  Ghost of the bestmove line: stopped tells whether the   *)
(* stop flag was up before line 145 raised it.                             *)
Finish ==
    /\ dpc = "finish"
    /\ history' = ageHistoryTable(history)
    /\ isStop' = TRUE
    /\ out' = Append(out, [type |-> "bestmove", move |-> bestMove,
                           stopped |-> isStop])
    /\ dpc' = "done"
    /\ UNCHANGED <<cfg, mode, value, legalMoves, bestMove, bestScore, rootDepth,
                   pvLine, timeLimit, now, ply, nullMoveCount, killers, tt,
                   stack, ret, last, lastAdd>>

(* The UCI thread raises the stop flag while a search runs.                *)
UciStop ==
    /\ dpc \in {"iter", "search"}
    /\ ~isStop
    /\ isStop' = TRUE
    /\ UNCHANGED <<cfg, mode, value, dpc, legalMoves, bestMove, bestScore,
                   rootDepth, pvLine, timeLimit, now, ply, nullMoveCount,
                   killers, history, tt, stack, ret, out, last, lastAdd>>

----------------------------------------------------------------------------
(* getBestMoveAtDepth.                                                     *)

\* search.cpp:186-190 and the loop increment: the root takes the score.
RootUpdate(f, score) ==
    IF score > f.alpha
    THEN [f EXCEPT !.score = score, !.alpha = score, !.tempMove = f.i,
                   !.tainted = f.aborted, !.i = f.i + 1, !.pc = "loop"]
    ELSE [f EXCEPT !.score = score, !.i = f.i + 1, !.pc = "loop"]

RootPV(f, score) ==
    IF score > f.alpha THEN changePV(legalMoves[f.i + 1], f.line) ELSE pvLine

\* search.cpp:160, 193-195: the list is exhausted.
RootDone ==
    /\ Running("root", "loop")
    /\ Top.i >= Len(legalMoves)
    /\ bestScore' = Top.alpha
    /\ ret' = Top.tempMove
    /\ last' = Call(Top, "done", ret')
    /\ stack' = Popped
    /\ UNCHANGED <<cfg, mode, value, dpc, legalMoves, bestMove, rootDepth,
                   pvLine, timeLimit, now, isStop, ply, nullMoveCount, killers,
                   history, tt, out, lastAdd>>

\* search.cpp:163-164: the stop flag is up before a root move.
RootStopped ==
    /\ Running("root", "loop")
    /\ Top.i < Len(legalMoves)
    /\ isStop
    /\ ret' = Top.tempMove
    /\ last' = Call(Top, "stopped", ret')
    /\ stack' = Popped
    /\ UNCHANGED <<cfg, mode, value, dpc, legalMoves, bestMove, bestScore,
                   rootDepth, pvLine, timeLimit, now, isStop, ply,
                   nullMoveCount, killers, history, tt, out, lastAdd>>

\* search.cpp:166-172, 181-182: play root move i and search it.
RootSearch ==
    /\ Running("root", "loop")
    /\ Top.i < Len(legalMoves)
    /\ ~isStop
    /\ LET f == Top
           copy == Target(f.b, legalMoves[f.i + 1])
           child == IF f.i # 0
                    THEN PVSFrame(copy, f.depth - 1, -f.alpha - 1, -f.alpha, N)
                    ELSE PVSFrame(copy, f.depth - 1, -f.beta, -f.alpha, N)
       IN  stack' = Append([stack EXCEPT ![N].copy = copy, ![N].aborted = FALSE,
                                  ![N].pc = IF f.i # 0 THEN "nw" ELSE "full"],
                           child)
    /\ ply' = ply + 1
    /\ UNCHANGED <<cfg, mode, value, dpc, legalMoves, bestMove, bestScore,
                   rootDepth, pvLine, timeLimit, now, isStop, nullMoveCount,
                   killers, history, tt, ret, out, last, lastAdd>>

\* search.cpp:173-178: after the null-window search, re-search or take.
RootAfterNullWindow ==
    /\ Running("root", "nw")
    /\ LET f == Top
           score == -ret
       IN  IF f.alpha < score /\ score < f.beta
           THEN /\ stack' = Append([stack EXCEPT ![N].score = score, ![N].pc = "full"],
                                   PVSFrame(f.copy, f.depth - 1, -f.beta, -f.alpha, N))
                /\ ply' = ply
                /\ pvLine' = pvLine
           ELSE /\ stack' = [stack EXCEPT ![N] = RootUpdate(f, score)]
                /\ ply' = ply - 1
                /\ pvLine' = RootPV(f, score)
    /\ UNCHANGED <<cfg, mode, value, dpc, legalMoves, bestMove, bestScore,
                   rootDepth, timeLimit, now, isStop, nullMoveCount, killers,
                   history, tt, ret, out, last, lastAdd>>

\* search.cpp:176-177 / 182-190: after a full-window search.
RootAfterFullWindow ==
    /\ Running("root", "full")
    /\ stack' = [stack EXCEPT ![N] = RootUpdate(Top, -ret)]
    /\ pvLine' = RootPV(Top, -ret)
    /\ ply' = ply - 1
    /\ UNCHANGED <<cfg, mode, value, dpc, legalMoves, bestMove, bestScore,
                   rootDepth, timeLimit, now, isStop, nullMoveCount, killers,
                   history, tt, ret, out, last, lastAdd>>

----------------------------------------------------------------------------
(* PVS.                                                                    *)
\* search.cpp:246-249: the frontier; the value of quiescence is returned.
PVSFrontier ==
    /\ Running("PVS", "enter")
    /\ Top.depth <= 0
    /\ stack' = Append(WithPV([stack EXCEPT ![N].pc = "qret"], Top.pvRef, << >>),
                       QFrame("Q", Top.b, 0, Top.alpha, Top.beta))
    /\ UNCHANGED <<cfg, mode, value, dpc, legalMoves, bestMove, bestScore,
                   rootDepth, pvLine, timeLimit, now, isStop, ply,
                   nullMoveCount, killers, history, tt, ret, out, last, lastAdd>>

PVSFrontierReturn ==
    /\ Running("PVS", "qret")
    /\ stack' = Popped
    /\ last' = Call(Top, "frontier", ret)
    /\ UNCHANGED <<cfg, mode, value, dpc, legalMoves, bestMove, bestScore,
                   rootDepth, pvLine, timeLimit, now, isStop, ply,
                   nullMoveCount, killers, history, tt, ret, out, lastAdd>>

\* DrawScore without the clamp at alpha.
DrawScoreUnclamped(alpha, beta) == IF 0 >= beta THEN beta ELSE 0

\* search.cpp:251-258
DrawScore(alpha, beta) ==
    IF 0 >= beta THEN beta
    ELSE IF 0 > alpha THEN 0
    ELSE alpha

PVSDraw ==
    /\ Running("PVS", "enter")
    /\ Top.depth > 0
    /\ isDraw(Top.b)
    /\ ret' = DrawScore(Top.alpha, Top.beta)
    /\ last' = Call(Top, "draw", ret')
    /\ stack' = Popped
    /\ UNCHANGED <<cfg, mode, value, dpc, legalMoves, bestMove, bestScore,
                   rootDepth, pvLine, timeLimit, now, isStop, ply,
                   nullMoveCount, killers, history, tt, out, lastAdd>>

\* search.cpp:260-271: probeTT is called with references to hashed, alpha.
PVSProbe ==
    /\ Running("PVS", "enter")
    /\ Top.depth > 0
    /\ ~isDraw(Top.b)
    /\ stack' = Append([stack EXCEPT ![N].prevAlpha = Top.alpha,
                                     ![N].hashed = NULL_MOVE, ![N].pc = "probed"],
                       [Frame0 EXCEPT !.fn = "probeTT", !.pc = "enter", !.b = Top.b,
                                      !.depth = Top.depth, !.beta = Top.beta,
                                      !.a0 = Top.alpha, !.pvRef = Top.pvRef])
    /\ UNCHANGED <<cfg, mode, value, dpc, legalMoves, bestMove, bestScore,
                   rootDepth, pvLine, timeLimit, now, isStop, ply,
                   nullMoveCount, killers, history, tt, ret, out, last, lastAdd>>

(* probeTT.  hashed and alpha are the caller's: the frame below.           *)
Caller == stack[N - 1]

\* ProbeEntry that keeps the move of the entry when it cannot be played.
ProbeEntryKeepsMove(e, depth, alpha, beta, playable) ==
    IF e.depth < 0 THEN [act |-> "return", v |-> -INFTY, hashed |-> NULL_MOVE]
    ELSE IF e.nodeType = ALL_NODE
    THEN IF e.depth >= depth /\ e.score <= alpha
         THEN [act |-> "return", v |-> alpha, hashed |-> NULL_MOVE]
         ELSE [act |-> "return", v |-> -INFTY, hashed |-> NULL_MOVE]
    ELSE IF e.depth >= depth /\ e.nodeType = CUT_NODE /\ e.score >= beta
    THEN [act |-> "return", v |-> beta, hashed |-> e.m]
    ELSE IF playable
    THEN [act |-> "search", v |-> 0, hashed |-> e.m]
    ELSE [act |-> "return", v |-> -INFTY, hashed |-> e.m]

\* ProbeEntry with the exact-score cutoff of PV_NODE entries that
\* search.cpp:495-499 leaves commented out.
ProbeEntryExactCut(e, depth, alpha, beta, playable) ==
    IF e.depth < 0 THEN [act |-> "return", v |-> -INFTY, hashed |-> NULL_MOVE]
    ELSE IF e.nodeType = ALL_NODE
    THEN IF e.depth >= depth /\ e.score <= alpha
         THEN [act |-> "return", v |-> alpha, hashed |-> NULL_MOVE]
         ELSE [act |-> "return", v |-> -INFTY, hashed |-> NULL_MOVE]
    ELSE IF e.depth >= depth /\ e.nodeType = CUT_NODE /\ e.score >= beta
    THEN [act |-> "return", v |-> beta, hashed |-> e.m]
    ELSE IF e.depth >= depth /\ e.nodeType = PV_NODE
    THEN [act |-> "return", v |-> e.score, hashed |-> e.m]
    ELSE IF playable
    THEN [act |-> "search", v |-> 0, hashed |-> e.m]
    ELSE [act |-> "return", v |-> -INFTY, hashed |-> NULL_MOVE]

\* search.cpp:468-500: what the entry decides before any search:
\* the value to return at once, or "search" / "type1" / "none".
ProbeEntry(e, depth, alpha, beta, playable) ==
    IF e.depth < 0 THEN [act |-> "return", v |-> -INFTY, hashed |-> NULL_MOVE]
    ELSE IF e.nodeType = ALL_NODE
    THEN IF e.depth >= depth /\ e.score <= alpha
         THEN [act |-> "return", v |-> alpha, hashed |-> NULL_MOVE]
         ELSE [act |-> "return", v |-> -INFTY, hashed |-> NULL_MOVE]
    ELSE IF e.depth >= depth /\ e.nodeType = CUT_NODE /\ e.score >= beta
    THEN [act |-> "return", v |-> beta, hashed |-> e.m]
    ELSE IF playable
    THEN [act |-> "search", v |-> 0, hashed |-> e.m]
    ELSE [act |-> "return", v |-> -INFTY, hashed |-> NULL_MOVE]

Probe ==
    LET e == ttGet(tt, Top.b)
    IN  ProbeEntry(e, Top.depth, Caller.alpha, Top.beta,
                   e.depth >= 0 /\ doHashMove(Top.b, e.m))

\* search.cpp:468-500, 522-528: the probe ends without a search.
ProbeReturn ==
    /\ Running("probeTT", "enter")
    /\ Probe.act = "return"
    /\ ret' = Probe.v
    /\ stack' = [Popped EXCEPT ![N - 1].hashed = Probe.hashed]
    /\ last' = Call(Top, "probe", ret')
    /\ UNCHANGED <<cfg, mode, value, dpc, legalMoves, bestMove, bestScore,
                   rootDepth, pvLine, timeLimit, now, isStop, ply,
                   nullMoveCount, killers, history, tt, out, lastAdd>>

\* search.cpp:501-510: the hash move is playable and is searched.
ProbeSearch ==
    /\ Running("probeTT", "enter")
    /\ Probe.act = "search"
    /\ LET copy == Target(Top.b, Probe.hashed)
       IN  stack' = Append([stack EXCEPT ![N - 1].hashed = Probe.hashed,
                                         ![N].hashed = Probe.hashed,
                                         ![N].copy = copy, ![N].pc = "hashret"],
                           PVSFrame(copy, Top.depth - 1, -Top.beta, -Caller.alpha, N))
    /\ ply' = ply + 1
    /\ UNCHANGED <<cfg, mode, value, dpc, legalMoves, bestMove, bestScore,
                   rootDepth, pvLine, timeLimit, now, isStop, nullMoveCount,
                   killers, history, tt, ret, out, last, lastAdd>>

\* search.cpp:511-521, 528: the hash move's score.
ProbeAfterHashMove ==
    /\ Running("probeTT", "hashret")
    /\ LET score == -ret
       IN  IF score >= Top.beta
           THEN /\ ret' = Top.beta
                /\ stack' = Popped
           ELSE IF score > Caller.alpha
           THEN /\ ret' = -INFTY
                /\ stack' = WithPV([Popped EXCEPT ![N - 1].alpha = score],
                                   Top.pvRef, changePV(Top.hashed, Top.line))
           ELSE /\ ret' = -INFTY
                /\ stack' = Popped
    /\ last' = Call(Top, "hashmove", ret')
    /\ ply' = ply - 1
    /\ UNCHANGED <<cfg, mode, value, dpc, legalMoves, bestMove, bestScore,
                   rootDepth, pvLine, timeLimit, now, isStop, nullMoveCount,
                   killers, history, tt, out, lastAdd>>

\* search.cpp:283
StaticEval(b) == IF getPlayerToMove(b) = WHITE THEN evaluate(b) ELSE -evaluate(b)

\* The condition of the null move without the count of null moves.
NullMoveAppliesUncounted(f, isPV, inCheck, staticEval) ==
    /\ f.depth >= 3 /\ ~isPV /\ ~inCheck
    /\ staticEval >= f.beta /\ getNonPawnMaterial(f.b) # 0

\* search.cpp:292-293: the null move is tried.
NullMoveApplies(f, isPV, inCheck, staticEval) ==
    /\ f.depth >= 3 /\ ~isPV /\ ~inCheck /\ nullMoveCount < 2
    /\ staticEval >= f.beta /\ getNonPawnMaterial(f.b) # 0

\* search.cpp:294-303
NullReduction(depth, staticEval, beta) ==
    LET r == IF depth >= 11 THEN 4 ELSE IF depth >= 6 THEN 3 ELSE 2
    IN  Min(depth - 2, r + TruncDiv(staticEval - beta, PAWN_VALUE))

\* search.cpp:326-327: reverse futility pruning returns beta.
ReverseFutile(f) ==
    /\ ~f.isPVNode /\ ~f.isInCheck
    /\ f.depth <= 2 /\ f.staticEval - REVERSE_FUTILITY_MARGIN(f.depth) >= f.beta
    /\ getNonPawnMaterial(f.b) # 0

\* search.cpp:331-339: the move iterator and the loop's locals; nodePly is
\* the ply of the node.
EnterLoop(f, nodePly) ==
    [f EXCEPT !.moves = generateMoves(f.b, f.hashed, killers[nodePly], history),
              !.toHash = NULL_MOVE,
              !.movesSearched = IF f.hashed = NULL_MOVE THEN 0 ELSE 1,
              !.score = -INFTY, !.yielded = << >>, !.pc = "loop"]

\* search.cpp:272-273: probeTT ended the node.
PVSHashReturn ==
    /\ Running("PVS", "probed")
    /\ ret # -INFTY
    /\ stack' = Popped
    /\ last' = Call(Top, "tt", ret)
    /\ UNCHANGED <<cfg, mode, value, dpc, legalMoves, bestMove, bestScore,
                   rootDepth, pvLine, timeLimit, now, isStop, ply,
                   nullMoveCount, killers, history, tt, ret, out, lastAdd>>

\* The frame after search.cpp:275-283.
Evaluated(f) ==
    [f EXCEPT !.isPVNode = (f.beta - f.alpha # 1), !.isInCheck = isInCheck(f.b),
              !.staticEval = StaticEval(f.b)]

\* search.cpp:292-308: the null move is played and searched.
PVSNullMove ==
    /\ Running("PVS", "probed")
    /\ ret = -INFTY
    /\ LET f == Evaluated(Top)
           reduction == NullReduction(f.depth, f.staticEval, f.beta)
       IN  /\ NullMoveApplies(f, f.isPVNode, f.isInCheck, f.staticEval)
           /\ stack' = Append([stack EXCEPT ![N] = [f EXCEPT !.b = doNullMove(f.b),
                                                             !.pc = "nullret"]],
                              PVSFrame(doNullMove(f.b), f.depth - 1 - reduction,
                                       -f.beta, -f.alpha, N))
    /\ nullMoveCount' = nullMoveCount + 1
    /\ ply' = ply + 1
    /\ UNCHANGED <<cfg, mode, value, dpc, legalMoves, bestMove, bestScore,
                   rootDepth, pvLine, timeLimit, now, isStop, killers, history,
                   tt, ret, out, last, lastAdd>>

\* search.cpp:326-339: no null move; reverse futility or the move loop.
PVSNoNullMove ==
    /\ Running("PVS", "probed")
    /\ ret = -INFTY
    /\ LET f == Evaluated(Top)
       IN  /\ ~NullMoveApplies(f, f.isPVNode, f.isInCheck, f.staticEval)
           /\ IF ReverseFutile(f)
              THEN /\ ret' = f.beta
                   /\ stack' = Popped
                   /\ last' = Call(f, "rfp", f.beta)
              ELSE /\ ret' = ret
                   /\ stack' = [stack EXCEPT ![N] = EnterLoop(f, ply)]
                   /\ last' = last
    /\ UNCHANGED <<cfg, mode, value, dpc, legalMoves, bestMove, bestScore,
                   rootDepth, pvLine, timeLimit, now, isStop, ply,
                   nullMoveCount, killers, history, tt, out, lastAdd>>

\* search.cpp:309-339: the null move's score; the null move is undone.
PVSAfterNullMove ==
    /\ Running("PVS", "nullret")
    /\ LET f == [Top EXCEPT !.b = doNullMove(Top.b)]
           nullScore == -ret
       IN  IF nullScore >= f.beta
           THEN /\ ret' = f.beta
                /\ stack' = Popped
                /\ last' = [Call(f, "null", f.beta) EXCEPT !.ply = ply - 1]
           ELSE IF ReverseFutile(f)
           THEN /\ ret' = f.beta
                /\ stack' = Popped
                /\ last' = [Call(f, "rfp", f.beta) EXCEPT !.ply = ply - 1]
           ELSE /\ ret' = ret
                /\ stack' = [stack EXCEPT ![N] = EnterLoop(f, ply - 1)]
                /\ last' = last
    /\ nullMoveCount' = nullMoveCount - 1
    /\ ply' = ply - 1
    /\ UNCHANGED <<cfg, mode, value, dpc, legalMoves, bestMove, bestScore,
                   rootDepth, pvLine, timeLimit, now, isStop, killers, history,
                   tt, out, lastAdd>>

\* scoreMate without the clamp into the window.
scoreMateUnclamped(inCheck, depth, alpha, beta) ==
    IF inCheck THEN -MATE_SCORE + ply ELSE 0

\* scoreMate without the ply in the mate score.
scoreMateNoPly(inCheck, depth, alpha, beta) ==
    LET score == IF inCheck THEN -MATE_SCORE ELSE 0
    IN  IF score >= beta THEN beta
        ELSE IF score > alpha THEN score
        ELSE alpha

\* search.cpp:532-547; searchParams.ply is the ply of the node.
scoreMate(inCheck, depth, alpha, beta) ==
    LET score == IF inCheck THEN -MATE_SCORE + ply ELSE 0
    IN  IF score >= beta THEN beta
        ELSE IF score > alpha THEN score
        ELSE alpha

\* A transpositionTable.add as the ghost keeps it: searched is the depth
\* the deciding child was searched to.
Added(f, m, score, nodeType, searched) ==
    [key |-> Board(f.b).key, b |-> f.b, depth |-> f.depth, m |-> m,
     score |-> score, nodeType |-> nodeType, ply |-> ply, searched |-> searched,
     stopped |-> isStop]

\* search.cpp:443-463: the loop is over: mate or stalemate, or the node is
\* stored and alpha returned.
PVSLoopExit ==
    /\ Running("PVS", "loop")
    /\ Top.moves = << >>
    /\ LET f == Top
           c == getPlayerToMove(f.b)
       IN  IF f.score = -INFTY
           THEN /\ ret' = scoreMate(f.isInCheck, f.depth, f.alpha, f.beta)
                /\ last' = Call(f, "mate", ret')
                /\ UNCHANGED <<tt, lastAdd, history>>
           ELSE /\ ret' = f.alpha
                /\ last' = Call(f, "loop", ret')
                /\ IF f.toHash # NULL_MOVE /\ f.prevAlpha < f.alpha /\ f.alpha < f.beta
                   THEN /\ tt' = ttAdd(tt, f.b, f.depth, f.toHash, f.alpha, PV_NODE)
                        /\ lastAdd' = Added(f, f.toHash, f.alpha, PV_NODE, f.depth - 1)
                        /\ history' =
                             IF ~isCapture(f.toHash)
                             THEN reduceBadHistories(
                                    SetHistory(history, c, f.toHash,
                                        History(history, c, f.toHash) + f.depth * f.depth),
                                    c, f.yielded, f.toHash, f.depth)
                             ELSE history
                   ELSE IF f.alpha <= f.prevAlpha
                   THEN /\ tt' = ttAdd(tt, f.b, f.depth, NULL_MOVE, f.alpha, ALL_NODE)
                        /\ lastAdd' = Added(f, NULL_MOVE, f.alpha, ALL_NODE, f.depth - 1)
                        /\ history' = history
                   ELSE UNCHANGED <<tt, lastAdd, history>>
    /\ stack' = Popped
    /\ UNCHANGED <<cfg, mode, value, dpc, legalMoves, bestMove, bestScore,
                   rootDepth, pvLine, timeLimit, now, isStop, ply,
                   nullMoveCount, killers, out>>

\* search.cpp:356-358: the move is futile.
Futile(f, m) ==
    /\ f.depth <= 3 /\ f.staticEval <= f.alpha - FUTILITY_MARGIN(f.depth)
    /\ nodeIsReducible(f) /\ ~isCapture(m) /\ Abs(f.alpha) < QUEEN_VALUE
    /\ ~isPromotion(m) /\ ~isCheckMove(f.b, m)

\* search.cpp:385-392: the late move reduction of move m, played into copy.
LateMoveReduction(f, m, copy, kl) ==
    IF /\ nodeIsReducible(f) /\ ~isCapture(m) /\ f.depth >= 3
       /\ f.movesSearched > 2 /\ f.alpha <= f.prevAlpha
       /\ m # kl[1] /\ m # kl[2]
       /\ ~isPromotion(m) /\ ~isInCheck(copy)
    THEN Min(f.depth - 2, (19 * (f.depth - 3) + 8 * f.movesSearched) \div 76)
    ELSE 0

\* The frame after ss.nextMove() yielded the head of its moves.
Yielded(f) ==
    [f EXCEPT !.m = Head(f.moves), !.moves = Tail(f.moves),
              !.yielded = IF isCapture(Head(f.moves)) THEN f.yielded
                          ELSE Append(f.yielded, Head(f.moves))]

\* search.cpp:343-348: the clock is read; over the limit or stopped, the
\* frame returns -INFTY.
PVSStop ==
    /\ Running("PVS", "loop")
    /\ Top.moves # << >>
    /\ \E t \in now..MaxClock :
          /\ now' = t
          /\ isStop \/ t > timeLimit
    /\ isStop' = TRUE
    /\ ret' = -INFTY
    /\ last' = Call(Top, "stop", -INFTY)
    /\ stack' = [Popped EXCEPT ![1].aborted = TRUE]
    /\ UNCHANGED <<cfg, mode, value, dpc, legalMoves, bestMove, bestScore,
                   rootDepth, pvLine, timeLimit, ply, nullMoveCount, killers,
                   history, tt, out, lastAdd>>

\* search.cpp:356-361, 374-376: the move is skipped, futile or illegal.
PVSSkip ==
    /\ Running("PVS", "loop")
    /\ Top.moves # << >>
    /\ ~isStop
    /\ \E t \in now..MaxClock : now' = t /\ t <= timeLimit
    /\ LET f == Yielded(Top)
       IN  IF Futile(f, f.m)
           THEN stack' = [stack EXCEPT ![N] = [f EXCEPT !.score = f.alpha]]
           ELSE /\ ~doPseudoLegalMove(f.b, f.m)
                /\ stack' = [stack EXCEPT ![N] = f]
    /\ UNCHANGED <<cfg, mode, value, dpc, legalMoves, bestMove, bestScore,
                   rootDepth, pvLine, timeLimit, isStop, ply, nullMoveCount,
                   killers, history, tt, ret, out, last, lastAdd>>

\* search.cpp:373-410: the move is played and searched, reduced if late.
PVSSearch ==
    /\ Running("PVS", "loop")
    /\ Top.moves # << >>
    /\ ~isStop
    /\ \E t \in now..MaxClock : now' = t /\ t <= timeLimit
    /\ LET f == Yielded(Top)
           copy == Target(f.b, f.m)
           reduction == LateMoveReduction(f, f.m, copy, killers[ply])
           g == [f EXCEPT !.copy = copy, !.reduction = reduction,
                          !.pc = IF f.movesSearched # 0 THEN "nw" ELSE "full"]
       IN  /\ ~Futile(f, f.m)
           /\ doPseudoLegalMove(f.b, f.m)
           /\ stack' = Append([stack EXCEPT ![N] = g],
                              IF f.movesSearched # 0
                              THEN PVSFrame(copy, f.depth - 1 - reduction,
                                            -f.alpha - 1, -f.alpha, N)
                              ELSE PVSFrame(copy, f.depth - 1, -f.beta, -f.alpha, N))
    /\ ply' = ply + 1
    /\ UNCHANGED <<cfg, mode, value, dpc, legalMoves, bestMove, bestScore,
                   rootDepth, pvLine, timeLimit, isStop, nullMoveCount, killers,
                   history, tt, ret, out, last, lastAdd>>

\* search.cpp:421-426: the killers of a ply after the quiet cutoff move m.
ShiftKillers(kl, m) == IF m # kl[1] THEN <<m, kl[1]>> ELSE kl

\* search.cpp:414-441: the frame f takes the score of move f.m, which the
\* child established by a search to depth searched; nodePly is the node's.
PVSTake(f, score, searched, nodePly) ==
    LET c == getPlayerToMove(f.b)
    IN  IF score >= f.beta
        THEN /\ tt' = ttAdd(tt, f.b, f.depth, f.m, f.beta, CUT_NODE)
             /\ lastAdd' = [Added(f, f.m, f.beta, CUT_NODE, searched)
                               EXCEPT !.ply = nodePly]
             /\ killers' = IF isCapture(f.m) THEN killers
                           ELSE [killers EXCEPT ![nodePly] = ShiftKillers(@, f.m)]
             /\ history' =
                  IF isCapture(f.m) THEN history
                  ELSE reduceBadHistories(
                          SetHistory(history, c, f.m,
                                     History(history, c, f.m) + f.depth * f.depth),
                          c, f.yielded, f.m, f.depth)
             /\ ret' = f.beta
             /\ last' = [Call(f, "cut", f.beta) EXCEPT !.ply = nodePly]
             /\ stack' = Popped
        ELSE /\ UNCHANGED <<tt, lastAdd, killers, history, ret, last>>
             /\ IF score > f.alpha
                THEN stack' = WithPV([stack EXCEPT ![N] =
                                         [f EXCEPT !.score = score, !.alpha = score,
                                                   !.toHash = f.m,
                                                   !.movesSearched = f.movesSearched + 1,
                                                   !.pc = "loop"]],
                                     f.pvRef, changePV(f.m, f.line))
                ELSE stack' = [stack EXCEPT ![N] =
                                  [f EXCEPT !.score = score,
                                            !.movesSearched = f.movesSearched + 1,
                                            !.pc = "loop"]]

\* search.cpp:399-405: the null-window score; the re-search at depth-1.
PVSAfterNullWindow ==
    /\ Running("PVS", "nw")
    /\ LET f == Top
           score == -ret
       IN  IF f.alpha < score /\ score < f.beta
           THEN /\ stack' = Append([stack EXCEPT ![N].score = score, ![N].pc = "full"],
                                   PVSFrame(f.copy, f.depth - 1, -f.beta, -f.alpha, N))
                /\ ply' = ply
                /\ UNCHANGED <<tt, lastAdd, killers, history, ret, last>>
           ELSE /\ PVSTake(f, score, f.depth - 1 - f.reduction, ply - 1)
                /\ ply' = ply - 1
    /\ UNCHANGED <<cfg, mode, value, dpc, legalMoves, bestMove, bestScore,
                   rootDepth, pvLine, timeLimit, now, isStop, nullMoveCount, out>>

\* search.cpp:403-404 / 410-441: the full-window score.
PVSAfterFullWindow ==
    /\ Running("PVS", "full")
    /\ PVSTake(Top, -ret, Top.depth - 1, ply - 1)
    /\ ply' = ply - 1
    /\ UNCHANGED <<cfg, mode, value, dpc, legalMoves, bestMove, bestScore,
                   rootDepth, pvLine, timeLimit, now, isStop, nullMoveCount, out>>

----------------------------------------------------------------------------
(* quiescence and checkQuiescence.  The frame keeps plies in depth, the    *)
(* loop it is in in phase (capture, promotion, check; escape for           *)
(* checkQuiescence), the list being iterated in moves (scores beside it)   *)
(* and its index in i.                                                     *)

\* search.cpp:749-765: the lists after the best of index.. is swapped to index
\* (indices from 1 here).
nextMove(moves, scores, index) ==
    LET best == ArgMax(scores, index, index, index + 1)
    IN  [moves |-> Swap(moves, best, index), scores |-> Swap(scores, best, index)]

Side(b, v) == IF getPlayerToMove(b) = WHITE THEN v ELSE -v

\* search.cpp:564-582: the stand-pat decision: the value to return at once,
\* or the raised alpha to go on with.
StandPat(b, alpha, beta) ==
    LET material == Side(b, evaluateMaterial(b))
        standPat == material + Side(b, evaluatePositional(b))
        raised == IF alpha < standPat THEN standPat ELSE alpha
    IN  IF material >= beta + MAX_POS_SCORE
        THEN [done |-> TRUE, v |-> beta, standPat |-> material]
        ELSE IF material < alpha - 2 * MAX_POS_SCORE - QUEEN_VALUE
        THEN [done |-> TRUE, v |-> alpha, standPat |-> material]
        ELSE IF standPat >= beta
        THEN [done |-> TRUE, v |-> beta, standPat |-> standPat]
        ELSE IF standPat < raised - MAX_POS_SCORE - QUEEN_VALUE
        THEN [done |-> TRUE, v |-> raised, standPat |-> standPat]
        ELSE [done |-> FALSE, v |-> raised, standPat |-> standPat]

\* search.cpp:558-559, 690-695: in check, checkQuiescence takes the call.
QuiescenceInCheck ==
    /\ Running("Q", "enter") \/ Running("CQ", "enter")
    /\ Top.fn = "Q" => isInCheck(Top.b)
    /\ stack' = [stack EXCEPT ![N].fn = "CQ", ![N].pc = "loop",
                              ![N].phase = "escape",
                              ![N].moves = getPseudoLegalCheckEscapes(Top.b),
                              ![N].i = 0, ![N].score = -INFTY]
    /\ UNCHANGED <<cfg, mode, value, dpc, legalMoves, bestMove, bestScore,
                   rootDepth, pvLine, timeLimit, now, isStop, ply,
                   nullMoveCount, killers, history, tt, ret, out, last, lastAdd>>

\* search.cpp:564-590: stand pat; return, or list the captures.
QuiescenceStandPat ==
    /\ Running("Q", "enter")
    /\ ~isInCheck(Top.b)
    /\ LET f == Top
           sp == StandPat(f.b, f.alpha, f.beta)
           caps == getPseudoLegalCaptures(f.b)
       IN  IF sp.done
           THEN /\ ret' = sp.v
                /\ last' = Call(f, "standpat", sp.v)
                /\ stack' = Popped
           ELSE /\ stack' = [stack EXCEPT ![N] =
                    [f EXCEPT !.alpha = sp.v, !.standPat = sp.standPat,
                              !.moves = caps,
                              !.scores = [k \in 1..Len(caps) |->
                                             getMVVLVAScore(f.b, caps[k])],
                              !.i = 0, !.score = -INFTY, !.pc = "loop",
                              !.phase = "capture"]]
                /\ UNCHANGED <<ret, last>>
    /\ UNCHANGED <<cfg, mode, value, dpc, legalMoves, bestMove, bestScore,
                   rootDepth, pvLine, timeLimit, now, isStop, ply,
                   nullMoveCount, killers, history, tt, out, lastAdd>>

\* The frame with its next move picked: by nextMove among the captures,
\* in list order otherwise.
Picked(f) ==
    LET nm == nextMove(f.moves, f.scores, f.i + 1)
    IN  IF f.phase = "capture"
        THEN [f EXCEPT !.moves = nm.moves, !.scores = nm.scores,
                       !.m = nm.moves[f.i + 1], !.i = f.i + 1]
        ELSE [f EXCEPT !.m = f.moves[f.i + 1], !.i = f.i + 1]

\* search.cpp:596-600, 626-627: the move is pruned.
QPruned(f, m) ==
    CASE f.phase = "capture" ->
            \/ f.standPat + valueOfCaptured(f.b, m) < f.alpha - MAX_POS_SCORE
            \/ getExchangeScore(f.b, m) < 0 /\ getSEE(f.b, m) < -MAX_POS_SCORE
      [] f.phase = "promotion" -> getSEE(f.b, m) < 0
      [] OTHER -> FALSE

InQLoop == Running("Q", "loop") \/ Running("CQ", "loop")

\* search.cpp:596-604, 626-631, 656-657, 700-701: a move is skipped.
QuiescenceSkip ==
    /\ InQLoop
    /\ Top.i < Len(Top.moves)
    /\ LET f == Picked(Top)
       IN  /\ QPruned(f, f.m) \/ ~doPseudoLegalMove(f.b, f.m)
           /\ stack' = [stack EXCEPT ![N] = f]
    /\ UNCHANGED <<cfg, mode, value, dpc, legalMoves, bestMove, bestScore,
                   rootDepth, pvLine, timeLimit, now, isStop, ply,
                   nullMoveCount, killers, history, tt, ret, out, last, lastAdd>>

\* search.cpp:602-608, 629-635, 655-661, 699-705: a move is played and
\* searched: by checkQuiescence for a checking move, by quiescence else.
QuiescenceSearch ==
    /\ InQLoop
    /\ Top.i < Len(Top.moves)
    /\ LET f == Picked(Top)
           copy == Target(f.b, f.m)
       IN  /\ ~QPruned(f, f.m)
           /\ doPseudoLegalMove(f.b, f.m)
           /\ stack' = Append([stack EXCEPT ![N] = [f EXCEPT !.copy = copy,
                                                             !.pc = "after"]],
                              QFrame(IF f.phase = "check" THEN "CQ" ELSE "Q", copy,
                                     f.depth + 1, -f.beta, -f.alpha))
    /\ UNCHANGED <<cfg, mode, value, dpc, legalMoves, bestMove, bestScore,
                   rootDepth, pvLine, timeLimit, now, isStop, ply,
                   nullMoveCount, killers, history, tt, ret, out, last, lastAdd>>

\* search.cpp:610-618, 637-645, 663-672, 707-715: the score of the move.
QuiescenceAfterSearch ==
    /\ Running("Q", "after") \/ Running("CQ", "after")
    /\ LET f == Top
           score == -ret
       IN  IF score >= f.beta
           THEN /\ ret' = f.beta
                /\ last' = Call(f, "cut", f.beta)
                /\ stack' = Popped
           ELSE /\ stack' = [stack EXCEPT ![N] =
                    [f EXCEPT !.score = score, !.pc = "loop",
                              !.alpha = IF score > f.alpha THEN score ELSE f.alpha]]
                /\ UNCHANGED <<ret, last>>
    /\ UNCHANGED <<cfg, mode, value, dpc, legalMoves, bestMove, bestScore,
                   rootDepth, pvLine, timeLimit, now, isStop, ply,
                   nullMoveCount, killers, history, tt, out, lastAdd>>

\* search.cpp:719-727: checkQuiescence found no legal escape.
MatedScore(plies, alpha, beta) ==
    LET score == -MATE_SCORE + ply + plies
    IN  IF score >= beta THEN beta
        ELSE IF score > alpha THEN score
        ELSE alpha

\* search.cpp:621, 649-650, 682: a list of quiescence is exhausted: the
\* next list, or alpha is returned.
QuiescenceNextList ==
    /\ Running("Q", "loop")
    /\ Top.i >= Len(Top.moves)
    /\ LET f == Top
       IN  IF f.phase = "capture"
           THEN /\ stack' = [stack EXCEPT ![N].moves = getPseudoLegalPromotions(f.b),
                                          ![N].i = 0, ![N].phase = "promotion"]
                /\ UNCHANGED <<ret, last>>
           ELSE IF f.phase = "promotion" /\ f.depth <= 0
           THEN /\ stack' = [stack EXCEPT ![N].moves = getPseudoLegalChecks(f.b),
                                          ![N].i = 0, ![N].phase = "check"]
                /\ UNCHANGED <<ret, last>>
           ELSE /\ ret' = f.alpha
                /\ last' = Call(f, "loop", f.alpha)
                /\ stack' = Popped
    /\ UNCHANGED <<cfg, mode, value, dpc, legalMoves, bestMove, bestScore,
                   rootDepth, pvLine, timeLimit, now, isStop, ply,
                   nullMoveCount, killers, history, tt, out, lastAdd>>

\* search.cpp:718-729: the escapes are exhausted: mate, or alpha.
CheckQuiescenceExit ==
    /\ Running("CQ", "loop")
    /\ Top.i >= Len(Top.moves)
    /\ ret' = IF Top.score = -INFTY
              THEN MatedScore(Top.depth, Top.alpha, Top.beta)
              ELSE Top.alpha
    /\ last' = Call(Top, IF Top.score = -INFTY THEN "mate" ELSE "loop", ret')
    /\ stack' = Popped
    /\ UNCHANGED <<cfg, mode, value, dpc, legalMoves, bestMove, bestScore,
                   rootDepth, pvLine, timeLimit, now, isStop, ply,
                   nullMoveCount, killers, history, tt, out, lastAdd>>

----------------------------------------------------------------------------
Next ==
    \/ Start \/ Iterate \/ IterationEnd \/ Finish \/ UciStop
    \/ RootDone \/ RootStopped \/ RootSearch
    \/ RootAfterNullWindow \/ RootAfterFullWindow
    \/ PVSFrontier \/ PVSFrontierReturn \/ PVSDraw \/ PVSProbe
    \/ ProbeReturn \/ ProbeSearch \/ ProbeAfterHashMove
    \/ PVSHashReturn \/ PVSNullMove \/ PVSNoNullMove \/ PVSAfterNullMove
    \/ PVSLoopExit \/ PVSStop \/ PVSSkip \/ PVSSearch
    \/ PVSAfterNullWindow \/ PVSAfterFullWindow
    \/ QuiescenceInCheck \/ QuiescenceStandPat \/ QuiescenceSkip
    \/ QuiescenceSearch \/ QuiescenceAfterSearch \/ QuiescenceNextList
    \/ CheckQuiescenceExit

Spec == Init /\ [][Next]_vars

(* The search thread runs on while it has a step to take (getBestMove is   *)
(* sequential code without a blocking call).                               *)
FairSpec == Spec /\ WF_vars(Next)

----------------------------------------------------------------------------
(* The properties.                                                         *)
Clamp(v, alpha, beta) == IF v >= beta THEN beta ELSE IF v > alpha THEN v ELSE alpha
InWindow(c) == c.alpha <= c.val /\ c.val <= c.beta
NoLegalMove(b) == getAllLegalMoves(b) = << >>
\* A finished call of PVS with depth >= 1 and alpha < beta.
SearchedNode(c) == c.fn = "PVS" /\ c.depth >= 1 /\ c.alpha < c.beta

\* pv is a line of legal moves from b.
RECURSIVE PvLegal(_, _)
PvLegal(b, pv) ==
    \/ pv = << >>
    \/ doHashMove(b, Head(pv)) /\ PvLegal(Target(b, Head(pv)), Tail(pv))

Count(s, m) == Cardinality({k \in 1..Len(s) : s[k] = m})
IsPermutation(s, t) ==
    /\ Len(s) = Len(t)
    /\ \A k \in 1..Len(s) : Count(s, s[k]) = Count(t, s[k])

C2_AbortedSearchNeverChosen ==
    /\ \A k \in 1..N : stack[k].fn = "root" => ~stack[k].tainted
    /\ last.fn = "root" => ~last.tainted
    /\ \A k \in 1..Len(out) : out[k].type = "info" => ~out[k].tainted

\* C3: the PV of every info line starts with the iteration's best root move
\* and is a line of legal moves from the root (no search was stopped).
C3_PrintedPVIsLegal ==
    ~isStop =>
        \A k \in 1..Len(out) :
            out[k].type = "info" =>
                /\ out[k].pv # << >>
                /\ out[k].pv[1] = out[k].move
                /\ PvLegal(ROOT, out[k].pv)

\* C4: an entry PVS adds with depth d records a result the deciding child
\* established by a search to depth d-1 (no search was stopped).
C4_StoredDepthIsSearchedDepth ==
    lastAdd.key # 0 /\ ~lastAdd.stopped => lastAdd.searched = lastAdd.depth - 1

\* C5: a score PVS stores whose magnitude exceeds MATE_SCORE - MAX_DEPTH is
\* stored adjusted by the ply of the node: score + ply when positive,
\* score - ply when negative (no search was stopped).
C5_MateScoreStoredWithPly ==
    lastAdd.key # 0 /\ ~lastAdd.stopped =>
        /\ lastAdd.score > MATE_SCORE - MAX_DEPTH =>
              tt[lastAdd.key].score = lastAdd.score + lastAdd.ply
        /\ lastAdd.score < -(MATE_SCORE - MAX_DEPTH) =>
              tt[lastAdd.key].score = lastAdd.score - lastAdd.ply

\* C6: PVS with depth >= 1 and alpha < beta on a position that is no draw
\* by rule, where the side to move is not in check and has no legal move,
\* returns clamp(0, alpha, beta) (the returns on the stop flag and on a
\* transposition-table hit left aside).
C6_StalemateScore ==
    /\ SearchedNode(last) /\ ~isDraw(last.b)
    /\ ~isInCheck(last.b) /\ NoLegalMove(last.b)
    /\ last.via \notin {"stop", "tt"}
    => last.val = Clamp(0, last.alpha, last.beta)

C8_DrawScore ==
    /\ SearchedNode(last) /\ isDraw(last.b) =>
          last.via = "draw" /\ last.val = Clamp(0, last.alpha, last.beta)
    /\ \A k \in 1..N :
          /\ stack[k].fn = "PVS" /\ stack[k].depth >= 1 /\ isDraw(stack[k].b)
                => stack[k].pc = "enter"
          /\ stack[k].fn = "probeTT" => ~isDraw(stack[k].b)

\* C8, witness: a drawn position whose key has an entry in the table
\* returned 0, strictly inside the window.
C8_DrawReturnedOverEntry ==
    /\ SearchedNode(last) /\ last.via = "draw" /\ ttHas(tt, last.b)
    /\ last.alpha < 0 /\ 0 < last.beta /\ last.val = 0

C10_BestMoveFirst ==
    ~NoLegalMove(ROOT) /\ dpc # "start" =>
        /\ IsPermutation(legalMoves, getAllLegalMoves(ROOT))
        /\ bestMove = legalMoves[1]
        /\ out # << >> => legalMoves[1] = out[Len(out)].move
        /\ \A k \in 1..Len(out) :
              out[k].type = "bestmove" =>
                  Member(getAllLegalMoves(ROOT), out[k].move)
        /\ N >= 2 /\ stack[1].i = 0 =>
              /\ stack[1].copy = Target(ROOT, bestMove)
              /\ stack[2].fn = "PVS"
              /\ stack[2].a0 = -MATE_SCORE /\ stack[2].beta = MATE_SCORE

\* C10, witness: an iteration swapped another move to the front and the
\* next iteration searches it first.
C10_SwappedMoveSearchedFirst ==
    /\ rootDepth >= 2 /\ N >= 2 /\ stack[1].i = 0
    /\ legalMoves[1] # getAllLegalMoves(ROOT)[1]

\* The stop flag was never raised by the UCI thread or by the time limit
\* (line 145 raises it at the end of every run).
NeverStopped == IF dpc = "done" THEN ~out[Len(out)].stopped ELSE ~isStop

\* The info lines written so far are those of the iterations 1, 2, ... in
\* this order, and nothing else was written before them.
InfoLinesInOrder(n) ==
    /\ Len(out) >= n
    /\ \A k \in 1..n : out[k].type = "info" /\ out[k].depth = k

\* The run of a depth search as C11 tells it.
DepthRun ==
    /\ dpc \in {"iter", "search"} =>
          /\ rootDepth <= value
          /\ Len(out) = rootDepth - 1 /\ InfoLinesInOrder(rootDepth - 1)
    /\ dpc = "finish" => Len(out) = value /\ InfoLinesInOrder(value)
    /\ dpc = "done" =>
          /\ Len(out) = value + 1 /\ InfoLinesInOrder(value)
          /\ out[value + 1].type = "bestmove"

\* C11, as claimed: in DEPTH mode, when the stop flag is never raised and
\* the time limit is not exceeded, getBestMove runs the iterations
\* rootDepth = 1..value in increasing order, writes one info line per
\* iteration carrying that depth and then one bestmove line; no iteration
\* with rootDepth > value is started.
C11_DepthIterationsAlways ==
    mode = DEPTH /\ NeverStopped => DepthRun

\* C11, amended: it does so when the root position has a legal move.
C11_DepthIterations ==
    mode = DEPTH /\ NeverStopped /\ ~NoLegalMove(ROOT) => DepthRun

\* C11, witness: a depth search of more than two iterations is over, not
\* stopped, with its info lines and its bestmove line.
C11_DepthRunComplete ==
    /\ mode = DEPTH /\ value >= 3 /\ dpc = "done" /\ NeverStopped
    /\ Len(out) = value + 1 /\ out[value].depth = value
\* The safety part of C12.
TimeRun ==
    /\ dpc # "start" => timeLimit = MAX_TIME_FACTOR * value
    /\ dpc \in {"iter", "search"} /\ rootDepth >= 2 =>
          /\ rootDepth <= MAX_DEPTH
          /\ dpc = "iter" => now < value * TIME_FACTOR
    /\ dpc = "search" /\ now > MAX_TIME_FACTOR * value => isStop
    /\ dpc = "done" => out[Len(out)].type = "bestmove"

\* C12: in TIME mode an iteration after the first is started only if the
\* clock reading at the end of the previous one was below
\* value * TIME_FACTOR and rootDepth <= MAX_DEPTH; a clock reading above
\* MAX_TIME_FACTOR * value within an iteration raises the stop flag; and
\* the driver ends with a bestmove line.
C12_TimeIterations ==
    /\ [](mode = TIME => TimeRun)
    /\ (mode = TIME ~> dpc = "done")

\* C12, witness: a second iteration of a time search ran over the hard
\* limit, the stop flag was raised and the bestmove line is written.
C12_HardLimitEndsRun ==
    /\ mode = TIME /\ dpc = "done" /\ now > MAX_TIME_FACTOR * value
    /\ last.fn = "root" /\ last.depth >= 2
    /\ out[Len(out)].type = "bestmove" /\ out[Len(out)].stopped

\* The innermost frame is a PVS, quiescence or checkQuiescence frame at
\* the head of its move loop with a move left to take.
AtLoopWithMove ==
    /\ N > 0 /\ Top.pc = "loop"
    /\ \/ Top.fn = "PVS" /\ Top.moves # << >>
       \/ Top.fn \in {"Q", "CQ"} /\ Top.i < Len(Top.moves)

\* C13: once isStop is set, a PVS, quiescence or checkQuiescence frame
\* that comes to the next iteration of its move loop searches no further
\* move (no frame is pushed) and returns -INFTY.
C13_StopEndsEveryLoop ==
    [][isStop /\ AtLoopWithMove =>
          /\ Len(stack') = N - 1
          /\ ret' = -INFTY]_vars

\* The moves played from the root to the node of the innermost PVS frame:
\* one per active PVS frame, and one more between the return of a child
\* and the decrement of ply that follows the call.
PliesPlayed ==
    Cardinality({k \in 1..N : stack[k].fn = "PVS"})
    + (IF N > 0 /\ Top.pc \in {"nw", "full", "hashret", "nullret"} THEN 1 ELSE 0)

PlyCounts == ply = PliesPlayed
PlyInRange ==
    /\ ply <= MAX_DEPTH
    /\ Len(pvLine) <= MAX_DEPTH + 1
    /\ \A k \in 1..N : Len(stack[k].line) <= MAX_DEPTH + 1

\* C14: in both modes and for every value, searchParams.ply is the number
\* of moves played from the root to the node of the innermost PVS frame
\* (so every return of PVS and probeTT leaves it as it was at entry), it
\* never exceeds MAX_DEPTH, and no PV holds more than MAX_DEPTH + 1 moves.
C14_PlyTracksDepth == PlyCounts /\ PlyInRange

\* The null moves on the path from the root to the current node: the
\* frames whose null move is played and not yet undone.
NullMovesOnPath == Cardinality({k \in 1..N : stack[k].pc = "nullret"})

\* The position the PVS frame k > 1 was called on: the copy its caller
\* played a move on, or the caller's board with its null move played.
EntryBoard(k) ==
    IF stack[k - 1].pc = "nullret" THEN stack[k - 1].b ELSE stack[k - 1].copy

\* C15: nullMoveCount is between 0 and 2 and is the number of null moves
\* on the path from the root to the current node, so it is back at its
\* value at entry when the call that played the null move goes on or
\* returns (cutoff, no cutoff, aborted child); the board of a frame is its
\* position with the null move played exactly while the null move is
\* searched.
C15_NullMoveCount ==
    /\ nullMoveCount \in 0..2
    /\ nullMoveCount = NullMovesOnPath
    /\ \A k \in 2..N :
          stack[k].fn = "PVS" =>
              stack[k].b = IF stack[k].pc = "nullret"
                           THEN doNullMove(EntryBoard(k))
                           ELSE EntryBoard(k)

\* C15, witness: with two null moves on the path, a node that meets every
\* other condition of the null move is searched without one.
C15_ThirdNullMoveRefused ==
    /\ Running("PVS", "loop") /\ nullMoveCount = 2
    /\ Top.depth >= 3 /\ ~Top.isPVNode /\ ~Top.isInCheck
    /\ Top.staticEval >= Top.beta /\ getNonPawnMaterial(Top.b) # 0
\* probeTT is entered on a position whose key has an entry that is no
\* ALL_NODE and whose move cannot be played in the position.
HashMoveUnplayable ==
    /\ Running("probeTT", "enter")
    /\ LET e == ttGet(tt, Top.b)
       IN  e.depth >= 0 /\ e.nodeType # ALL_NODE /\ ~doHashMove(Top.b, e.m)

\* The entry ends the node by its score (search.cpp:486-494).
HashScoreCut ==
    LET e == ttGet(tt, Top.b)
    IN  e.depth >= Top.depth /\ e.nodeType = CUT_NODE /\ e.score >= Top.beta

\* The step of probeTT searches nothing, returns -INFTY with the caller's
\* hash move NULL_MOVE, and leaves the caller's alpha and every PV.
ProbeDiscards ==
    /\ Len(stack') = N - 1
    /\ ret' = -INFTY
    /\ stack'[N - 1].hashed = NULL_MOVE
    /\ stack'[N - 1].alpha = stack[N - 1].alpha
    /\ pvLine' = pvLine
    /\ \A k \in 1..(N - 1) : stack'[k].line = stack[k].line

\* A PVS frame without a hash move starts its loop with movesSearched = 0
\* and searches its first legal move with the window [-beta, -alpha] at
\* depth - 1.
NoHashMoveNode ==
    \A k \in 1..N :
        /\ stack[k].fn = "PVS" /\ stack[k].hashed = NULL_MOVE
        /\ stack[k].pc \in {"loop", "nw", "full"}
        => /\ stack[k].pc = "loop" /\ stack[k].score = -INFTY =>
                 stack[k].movesSearched = 0
           /\ stack[k].pc # "loop" /\ stack[k].movesSearched = 0 =>
                 /\ stack[k].pc = "full"
                 /\ k < N => /\ stack[k + 1].fn = "PVS"
                              /\ stack[k].copy =
                                     (IF stack[k + 1].pc = "nullret"
                                      THEN doNullMove(stack[k + 1].b)
                                      ELSE stack[k + 1].b)
                              /\ stack[k + 1].depth = stack[k].depth - 1
                              /\ stack[k + 1].a0 = -stack[k].beta
                              /\ stack[k + 1].beta = -stack[k].alpha

\* C16, as claimed: when the move of an entry that is no ALL_NODE cannot be
\* played, probeTT does not search it, leaves alpha and the PV, sets the
\* hash move to NULL_MOVE and returns -INFTY, and PVS goes on as a node
\* without a hash move.
C16_UnplayableHashMoveAlways ==
    /\ [][HashMoveUnplayable /\ stack' # stack => ProbeDiscards]_vars
    /\ []NoHashMoveNode

\* C16, amended: it does so unless the entry ends the node by its score (a
\* CUT_NODE entry of depth >= depth and score >= beta returns beta before
\* the move is tried).
C16_UnplayableHashMove ==
    /\ [][HashMoveUnplayable /\ ~HashScoreCut /\ stack' # stack
            => ProbeDiscards]_vars
    /\ []NoHashMoveNode

\* C16, witness: after an entry of another position with the same key was
\* discarded, the first move of the node is searched with the full window.
C16_SearchAfterDiscard ==
    /\ N >= 2 /\ last.fn = "probeTT" /\ last.via = "probe" /\ last.val = -INFTY
    /\ stack[N - 1].fn = "PVS" /\ stack[N - 1].b = last.b
    /\ stack[N - 1].pc = "full" /\ stack[N - 1].movesSearched = 0
    /\ stack[N - 1].hashed = NULL_MOVE
    /\ Top.fn = "PVS" /\ Top.pc = "enter"
    /\ LET e == ttGet(tt, last.b)
       IN  e.depth >= 0 /\ e.nodeType # ALL_NODE /\ ~doHashMove(last.b, e.m)

\* The step taken by probeTT on its entry: it returns or searches the move.
ProbeStep == Running("probeTT", "enter") /\ stack' # stack

\* The step ends the node: probeTT returns a value other than -INFTY.
ProbeEndsNode == Len(stack') = N - 1 /\ ret' # -INFTY

\* The entry is an upper bound of enough depth that is not above alpha.
AllNodeCut ==
    LET e == ttGet(tt, Top.b)
    IN  /\ e.depth >= 0 /\ e.nodeType = ALL_NODE
        /\ e.depth >= Top.depth /\ e.score <= Caller.alpha

\* The entry is a lower bound of enough depth that is not below beta.
CutNodeCut ==
    LET e == ttGet(tt, Top.b)
    IN  /\ e.depth >= 0 /\ e.nodeType = CUT_NODE
        /\ e.depth >= Top.depth /\ e.score >= Top.beta

ReturnsScoreMate ==
    /\ Running("PVS", "loop") /\ Top.moves = << >> /\ Top.score = -INFTY
    /\ stack' # stack

\* The step that leaves the move loop of a PVS call whose hash move was
\* searched in probeTT and is the only legal move of the node.
ReturnsAfterOnlyHashMove ==
    /\ Running("PVS", "loop") /\ Top.moves = << >>
    /\ Top.hashed # NULL_MOVE /\ getAllLegalMoves(Top.b) = <<Top.hashed>>
    /\ stack' # stack

\* C18: PVS returns the result of scoreMate only at a node without a legal
\* move; when the hash move searched in probeTT is the only legal move,
\* PVS returns the alpha the hash-move search left and no mate or
\* stalemate score.
C18_MateOnlyWithoutLegalMove ==
    /\ [][ReturnsScoreMate => getAllLegalMoves(Top.b) = << >>]_vars
    /\ [][ReturnsAfterOnlyHashMove =>
            /\ Top.score # -INFTY
            /\ ret' = Top.alpha]_vars

\* The step that leaves the move loop of a PVS call without a cutoff and
\* without a stop, at a node with a legal move.
FinishesLoop ==
    /\ Running("PVS", "loop") /\ Top.moves = << >> /\ ~isStop
    /\ getAllLegalMoves(Top.b) # << >>
    /\ stack' # stack

\* The move that raised alpha last: a move of the loop, or else the hash
\* move searched in probeTT.
RaisedAlpha(f) == IF f.toHash # NULL_MOVE THEN f.toHash ELSE f.hashed

\* C19: a PVS call that finishes its move loop without a cutoff and
\* without a stop, at a node with a legal move, adds one entry at the
\* node's depth: PV_NODE with the move that raised alpha when alpha is
\* above the alpha at entry (raised in the loop or by the hash move in
\* probeTT), and else ALL_NODE with NULL_MOVE and the unchanged alpha.
C19_LoopEndStoresNode ==
    [][FinishesLoop =>
         IF Top.alpha > Top.a0
         THEN /\ tt' = ttAdd(tt, Top.b, Top.depth, RaisedAlpha(Top), Top.alpha,
                             PV_NODE)
              /\ lastAdd' = Added(Top, RaisedAlpha(Top), Top.alpha, PV_NODE,
                                  Top.depth - 1)
         ELSE /\ tt' = ttAdd(tt, Top.b, Top.depth, NULL_MOVE, Top.a0, ALL_NODE)
              /\ lastAdd' = Added(Top, NULL_MOVE, Top.a0, ALL_NODE,
                                  Top.depth - 1)]_vars

\* The step of the innermost PVS frame plays a null move.
NullMoveStep ==
    /\ Running("PVS", "probed")
    /\ Len(stack') = N + 1 /\ stack'[N].pc = "nullret"

\* The step returns beta by reverse futility pruning.
ReverseFutilityStep ==
    /\ Running("PVS", "probed") \/ Running("PVS", "nullret")
    /\ Len(stack') = N - 1 /\ last'.via = "rfp"

\* The step skips the next move of the loop as futile.
FutilityStep ==
    /\ Running("PVS", "loop") /\ Top.moves # << >>
    /\ Futile(Top, Head(Top.moves))
    /\ Len(stack') = N /\ stack' # stack

\* The step searches the next move of the loop at a reduced depth.
LateMoveReductionStep ==
    /\ Running("PVS", "loop")
    /\ Len(stack') = N + 1 /\ stack'[N].reduction > 0

\* C20: null-move pruning, reverse futility pruning, futility pruning and
\* late move reduction are applied only at nodes PVS entered with a null
\* window; a node entered with beta - alpha > 1 is never pruned or
\* reduced by them, also when the hash move searched in probeTT raised
\* alpha to beta - 1.
C20_PruningOnlyInNullWindow ==
    [][/\ N > 0 /\ Top.fn = "PVS" /\ Top.beta - Top.a0 > 1
       => ~(NullMoveStep \/ ReverseFutilityStep \/ FutilityStep
            \/ LateMoveReductionStep)]_vars

\* The innermost PVS frame takes the value of a child search of its move
\* loop that was aborted by the stop flag: the child returned -INFTY.
TakesAbortedValue ==
    /\ Running("PVS", "nw") \/ Running("PVS", "full")
    /\ isStop /\ ret = -INFTY
    /\ stack' # stack

\* C21: the value of a child search aborted by the stop flag is never used
\* as a score: the frame that takes it adds no transposition entry, does
\* not shift the killers and does not change the history table.
C21_AbortedValueUnused ==
    [][TakesAbortedValue =>
         /\ tt' = tt /\ lastAdd' = lastAdd
         /\ killers' = killers /\ history' = history]_vars

============================================================================
